---- MODULE Spec2Model ----
(***************************************************************************)
(* SpeckEx native library (native/speck_ex/src/lib.rs): the NIFs that wrap *)
(* the Speck block ciphers, the CTR stream construction and the            *)
(* Speck-CTR + Poly1305 AEAD.  Byte strings are sequences of 0..255.       *)
(* The ciphers, the counter mode and the MAC are computed bit-exactly, so  *)
(* that round trips and tag checks are decided by the arithmetic.          *)
(***************************************************************************)
EXTENDS Integers, Sequences, FiniteSets, TLC

VARIABLES resources, call, ret, prev, engine

vars == <<resources, call, ret, prev, engine>>

-----------------------------------------------------------------------------
(* Bytes and words.  A word is a big-endian sequence of bytes.             *)

\* the byte string of a function on 1..n, with every byte computed
Bytes(f) == <<>> \o f

\* XorNibble[a + 1][b + 1] is a xor b for 0 <= a, b < 16
XorNibble ==
  Bytes([a \in 1..16 |-> Bytes([b \in 1..16 |->
      (((a - 1) + (b - 1)) % 2)
    + 2 * ((((a - 1) \div 2) + ((b - 1) \div 2)) % 2)
    + 4 * ((((a - 1) \div 4) + ((b - 1) \div 4)) % 2)
    + 8 * ((((a - 1) \div 8) + ((b - 1) \div 8)) % 2)])])

\* XorTable[a + 1][b + 1] is a xor b for 0 <= a, b < 256
XorTable ==
  Bytes([a \in 1..256 |-> Bytes([b \in 1..256 |->
      16 * XorNibble[((a - 1) \div 16) + 1][((b - 1) \div 16) + 1]
    + XorNibble[((a - 1) % 16) + 1][((b - 1) % 16) + 1]])])

XorByte(a, b) == XorTable[a + 1][b + 1]

XorBytes(s, t) == Bytes([i \in 1..Len(s) |-> XorTable[s[i] + 1][t[i] + 1]])

Pow2(k) == CASE k = 0 -> 1 [] k = 1 -> 2 [] k = 2 -> 4 [] k = 3 -> 8
             [] k = 4 -> 16 [] k = 5 -> 32 [] k = 6 -> 64 [] k = 7 -> 128
             [] k = 8 -> 256

Zeros(n) == Bytes([i \in 1..n |-> 0])

\* rotate the word x right by r bits, 0 <= r <= 8
RotR(x, r) ==
  LET n == Len(x)
      q == r \div 8
      k == r % 8
      y == Bytes([i \in 1..n |-> x[((i - 1 - q + n) % n) + 1]])
  IN  Bytes([i \in 1..n |->
         (y[i] \div Pow2(k)) + (y[((i - 2 + n) % n) + 1] % Pow2(k)) * Pow2(8 - k)])

\* rotate the word x left by r bits, 0 <= r <= 8
RotL(x, r) ==
  LET n == Len(x)
      q == r \div 8
      k == r % 8
      y == Bytes([i \in 1..n |-> x[((i - 1 + q) % n) + 1]])
  IN  Bytes([i \in 1..n |->
         ((y[i] * Pow2(k)) % 256) + (y[(i % n) + 1] \div Pow2(8 - k))])

RECURSIVE AddFrom(_, _, _, _)
AddFrom(x, y, i, c) ==
  IF i = 0 THEN <<>>
  ELSE LET s == x[i] + y[i] + c
       IN  Append(AddFrom(x, y, i - 1, s \div 256), s % 256)

\* x + y modulo 2^(8 * Len(x))
AddWord(x, y) == AddFrom(x, y, Len(x), 0)

RECURSIVE SubFrom(_, _, _, _)
SubFrom(x, y, i, b) ==
  IF i = 0 THEN <<>>
  ELSE LET s == x[i] - y[i] - b
       IN  Append(SubFrom(x, y, i - 1, IF s < 0 THEN 1 ELSE 0),
                  IF s < 0 THEN s + 256 ELSE s)

\* x - y modulo 2^(8 * Len(x))
SubWord(x, y) == SubFrom(x, y, Len(x), 0)

-----------------------------------------------------------------------------
(* Speck core: the ten variants of speck_cipher used by lib.rs.            *)

Variants ==
  {"Speck32_64", "Speck48_72", "Speck48_96", "Speck64_96", "Speck64_128",
   "Speck96_96", "Speck96_144", "Speck128_128", "Speck128_192", "Speck128_256"}

\* n: bytes per word, m: key words, T: rounds
Params(v) ==
  CASE v = "Speck32_64"   -> [n |-> 2, m |-> 4, T |-> 22]
    [] v = "Speck48_72"   -> [n |-> 3, m |-> 3, T |-> 22]
    [] v = "Speck48_96"   -> [n |-> 3, m |-> 4, T |-> 23]
    [] v = "Speck64_96"   -> [n |-> 4, m |-> 3, T |-> 26]
    [] v = "Speck64_128"  -> [n |-> 4, m |-> 4, T |-> 27]
    [] v = "Speck96_96"   -> [n |-> 6, m |-> 2, T |-> 28]
    [] v = "Speck96_144"  -> [n |-> 6, m |-> 3, T |-> 29]
    [] v = "Speck128_128" -> [n |-> 8, m |-> 2, T |-> 32]
    [] v = "Speck128_192" -> [n |-> 8, m |-> 3, T |-> 33]
    [] v = "Speck128_256" -> [n |-> 8, m |-> 4, T |-> 34]

BlockSize(v) == 2 * Params(v).n

KeySize(v) == Params(v).m * Params(v).n

Alpha(n) == IF n = 2 THEN 7 ELSE 8

Beta(n) == IF n = 2 THEN 2 ELSE 3

\* one encryption round on the two-word state (x, y) with round key k
Round(x, y, k) ==
  LET n  == Len(x)
      x2 == XorBytes(AddWord(RotR(x, Alpha(n)), y), k)
  IN  <<x2, XorBytes(RotL(y, Beta(n)), x2)>>

\* the inverse round
InvRound(x, y, k) ==
  LET n  == Len(x)
      y2 == RotR(XorBytes(x, y), Beta(n))
  IN  <<RotL(SubWord(XorBytes(x, k), y2), Alpha(n)), y2>>

\* the round index i as a word of n bytes (i < 256)
IdxWord(n, i) == Bytes([j \in 1..n |-> IF j = n THEN i ELSE 0])

RECURSIVE Expand(_, _, _, _, _)
\* l and k after i rounds of the schedule hold m - 1 + i and i + 1 words
Expand(n, T, l, k, i) ==
  IF i = T - 1 \/ Len(k) # i + 1 THEN k
  ELSE LET r == Round(l[i + 1], k[i + 1], IdxWord(n, i))
       IN  Expand(n, T, Append(l, r[1]), Append(k, r[2]), i + 1)

\* the round-key schedule of a key of KeySize(v) bytes
KeySchedule(v, key) ==
  LET p == Params(v)
      W(j) == SubSeq(key, j * p.n + 1, (j + 1) * p.n)
  IN  Expand(p.n, p.T, Bytes([i \in 1..(p.m - 1) |-> W(p.m - 1 - i)]),
             <<W(p.m - 1)>>, 0)

RECURSIVE EncRounds(_, _, _)
\* s is the two-word state <<x, y>>; rounds i..Len(rk) are still to run
EncRounds(s, rk, i) ==
  IF i > Len(rk) \/ Len(s) # 2 THEN s[1] \o s[2]
  ELSE EncRounds(Round(s[1], s[2], rk[i]), rk, i + 1)

RECURSIVE DecRounds(_, _, _)
\* rounds i..1 are still to be undone, last round first
DecRounds(s, rk, i) ==
  IF i = 0 \/ Len(s) # 2 THEN s[1] \o s[2]
  ELSE DecRounds(InvRound(s[1], s[2], rk[i]), rk, i - 1)

\* a cipher instance is [variant, rk]; blocks are 2n bytes
EncryptBlock(c, b) ==
  LET n == Params(c.variant).n
  IN  EncRounds(<<SubSeq(b, 1, n), SubSeq(b, n + 1, 2 * n)>>, c.rk, 1)

DecryptBlock(c, b) ==
  LET n == Params(c.variant).n
  IN  DecRounds(<<SubSeq(b, 1, n), SubSeq(b, n + 1, 2 * n)>>, c.rk, Len(c.rk))

-----------------------------------------------------------------------------
(* CTR engine: ctr::Ctr32BE / Ctr64BE / Ctr128BE over a Speck cipher,      *)
(* behind the buffering stream-cipher wrapper of the cipher crate.         *)

CtrVariants ==
  {"Speck32_64", "Speck64_96", "Speck64_128",
   "Speck128_128", "Speck128_192", "Speck128_256"}

\* the counter's width in bytes, were every ctr_crypt NIF built with Ctr32BE
CtrWidthAll32(v) == 4

\* the counter's width in bytes in the flavour each ctr_crypt NIF is built with
CtrWidth(v) ==
  CASE v = "Speck32_64" -> 4
    [] v \in {"Speck64_96", "Speck64_128"} -> 8
    [] v \in {"Speck128_128", "Speck128_192", "Speck128_256"} -> 16

\* the same for the poly1305 NIFs
AeadCtrWidth(v) ==
  CASE v = "Speck32_64" -> 4
    [] v \in {"Speck64_96", "Speck64_128"} -> 8
    [] v \in {"Speck128_128", "Speck128_192", "Speck128_256"} -> 16

RECURSIVE AddIntFrom(_, _, _)
AddIntFrom(x, i, c) ==
  IF i = 0 THEN <<>>
  ELSE Append(AddIntFrom(x, i - 1, (x[i] + c) \div 256), (x[i] + c) % 256)

\* the big-endian integer x plus k, wrapping modulo 2^(8 * Len(x))
WrappingAddBE(x, k) == AddIntFrom(x, Len(x), k)

\* the counter block of the flavour with a cw-byte big-endian counter:
\* the nonce with its last cw bytes, read as an integer, advanced by ctr
CounterBlock(cw, nonce, ctr) ==
  SubSeq(nonce, 1, Len(nonce) - cw)
    \o WrappingAddBE(SubSeq(nonce, Len(nonce) - cw + 1, Len(nonce)), ctr)

\* a fresh engine: no keystream block buffered, counter offset 0
CtrNew(cw, v, key, nonce) ==
  [cipher |-> [variant |-> v, rk |-> KeySchedule(v, key)], cw |-> cw,
   nonce |-> nonce, ctr |-> 0, buf |-> <<>>, pos |-> 0, used |-> <<>>]

\* the engine with the block cb encrypted into its buffer
Refill(st, cb) ==
  [st EXCEPT !.buf = EncryptBlock(st.cipher, cb), !.pos = 0,
             !.ctr = @ + 1, !.used = Append(@, cb)]

\* encrypt the current counter block into the buffer and advance the counter
NextBlock(st) == Refill(st, CounterBlock(st.cw, st.nonce, st.ctr))

\* mask k bytes of data from byte i on with the buffered keystream
MaskBytes(st, data, i, k) ==
  XorBytes(SubSeq(data, i, i + k - 1), SubSeq(st.buf, st.pos + 1, st.pos + k))

Min(a, b) == IF a < b THEN a ELSE b

RECURSIVE ApplyFrom(_, _, _, _)
\* bytes i.. of data are still to be masked: with what is left of the
\* buffered keystream block, or with a new block when none is left
ApplyFrom(st, data, i, out) ==
  IF i > Len(data) \/ Len(out) # i - 1 THEN [st |-> st, out |-> out]
  ELSE IF st.pos = Len(st.buf) THEN ApplyFrom(NextBlock(st), data, i, out)
  ELSE ApplyFrom([st EXCEPT !.pos = @ + Min(Len(st.buf) - st.pos, Len(data) - i + 1)],
                 data, i + Min(Len(st.buf) - st.pos, Len(data) - i + 1),
                 out \o MaskBytes(st, data, i,
                                  Min(Len(st.buf) - st.pos, Len(data) - i + 1)))

\* apply_keystream: XOR data with the next Len(data) keystream bytes
ApplyKeystream(st, data) == ApplyFrom(st, data, 1, <<>>)

-----------------------------------------------------------------------------
(* Poly1305 (poly1305 crate), on little-endian base-256 digits.            *)

RECURSIVE AddLE(_, _, _, _)
AddLE(h, c, j, u) ==
  IF j > Len(h) THEN <<>>
  ELSE <<(u + h[j] + c[j]) % 256>> \o AddLE(h, c, j + 1, (u + h[j] + c[j]) \div 256)

\* h + c modulo 2^136 on 17 digits
Add1305(h, c) == AddLE(h, c, 1, 0)

\* r = the key's first 16 bytes, clamped, as 17 digits
Clamp(key) ==
  Bytes([j \in 1..17 |->
    IF j = 17 THEN 0
    ELSE IF j \in {4, 8, 12, 16} THEN key[j] % 16
    ELSE IF j \in {5, 9, 13} THEN key[j] - (key[j] % 4)
    ELSE key[j]])

RECURSIVE MulTerm(_, _, _, _)
\* sum over j..17 of the products that land on digit i of h * r mod 2^130 - 5
MulTerm(h, r, i, j) ==
  IF j > 17 THEN 0
  ELSE h[j] * (IF j <= i THEN r[i - j + 1] ELSE 320 * r[i + 18 - j])
       + MulTerm(h, r, i, j + 1)

RECURSIVE CarryPass(_, _, _)
\* 16 digits of x with carries propagated, then the carry out
CarryPass(x, j, u) ==
  IF j > 16 THEN <<u>>
  ELSE <<(u + x[j]) % 256>> \o CarryPass(x, j + 1, (u + x[j]) \div 256)

\* the second carry pass: what overflowed 2^130 comes back in times 5
Fold(p, top) ==
  SubSeq(CarryPass(p, 1, 5 * ((p[17] + top) \div 4)), 1, 16)
    \o <<CarryPass(p, 1, 5 * ((p[17] + top) \div 4))[17] + ((p[17] + top) % 4)>>

\* the 17 digit sums x brought back to digits, partially reduced
Squeeze(x) == Fold(CarryPass(x, 1, 0), x[17])

\* h * r modulo 2^130 - 5, partially reduced
Mul1305(h, r) == Squeeze(Bytes([i \in 1..17 |-> MulTerm(h, r, i, 1)]))

RECURSIVE PolyBlocks(_, _, _, _)
\* absorb the 16-byte blocks of msg from block i on, each with the high bit
PolyBlocks(h, r, msg, i) ==
  IF 16 * i >= Len(msg) \/ Len(h) # 17 THEN h
  ELSE PolyBlocks(Mul1305(Add1305(h, SubSeq(msg, 16 * i + 1, 16 * i + 16) \o <<1>>), r),
                  r, msg, i + 1)

MinusP == <<5>> \o Zeros(15) \o <<252>>

\* h fully reduced: g is h - (2^130 - 5) modulo 2^136
Select(h, g) == IF g[17] >= 128 THEN h ELSE g

Freeze(h) == Select(h, Add1305(h, MinusP))

\* the tag of msg (a whole number of 16-byte blocks) under the 32-byte key
Poly1305(key, msg) ==
  SubSeq(Add1305(Freeze(PolyBlocks(Zeros(17), Clamp(key), msg, 0)),
                 SubSeq(key, 17, 32) \o <<0>>), 1, 16)

\* update_padded: data followed by zeros up to a multiple of 16 bytes
Pad16(data) == data \o Zeros((16 - (Len(data) % 16)) % 16)

\* n as an 8-byte little-endian integer (n < 65536)
LE64(n) == <<n % 256, n \div 256>> \o Zeros(6)

-----------------------------------------------------------------------------
(* What a NIF hands back to the calling process.                           *)

\* Ok(term): the term is returned; tag is the pair's second binary, if any
Ok(bin, tag) == [kind |-> "ok", atom |-> "", bin |-> bin, tag |-> tag]

\* Err(Error::Atom(a)): the atom a is returned instead of a result
ErrAtom(a) == [kind |-> "atom", atom |-> a, bin |-> <<>>, tag |-> <<>>]

\* Err(Error::BadArg): badarg is raised in the caller
BadArg == [kind |-> "raise", atom |-> "badarg", bin |-> <<>>, tag |-> <<>>]

\* a panic inside a NIF (a failed length assertion of GenericArray):
\* unwound at the NIF boundary and raised in the caller as nif_panicked
Panicked == [kind |-> "raise", atom |-> "nif_panicked", bin |-> <<>>, tag |-> <<>>]

\* what a call leaves visible of its CTR engine: the counter blocks it
\* encrypted, how many of them the subkey derivation took, and the subkey
NoEngine == [used |-> <<>>, derived |-> 0, subkey |-> <<>>]

\* a call that fails before it builds an engine
Fails(r) == [ret |-> r, engine |-> NoEngine]

-----------------------------------------------------------------------------
(* Block cipher NIFs.  fail = k > 0: the call's k-th allocation fails.     *)

init(v, key) ==
  IF Len(key) = KeySize(v)
  THEN [ret |-> Ok(<<>>, <<>>),
        new |-> <<[variant |-> v, rk |-> KeySchedule(v, key)]>>]
  ELSE [ret |-> BadArg, new |-> <<>>]

encrypt(cipher, data, fail) ==
  IF fail = 1 THEN ErrAtom("allocation_failed")
  ELSE IF Len(data) # BlockSize(cipher.variant) THEN Panicked
  ELSE Ok(EncryptBlock(cipher, data), <<>>)

\* decrypt, were it to run the encryption rounds
decrypt_forward(cipher, data, fail) ==
  IF fail = 1 THEN ErrAtom("allocation_failed")
  ELSE IF Len(data) # BlockSize(cipher.variant) THEN Panicked
  ELSE Ok(EncryptBlock(cipher, data), <<>>)

decrypt(cipher, data, fail) ==
  IF fail = 1 THEN ErrAtom("allocation_failed")
  ELSE IF Len(data) # BlockSize(cipher.variant) THEN Panicked
  ELSE Ok(DecryptBlock(cipher, data), <<>>)

-----------------------------------------------------------------------------
(* CTR NIFs.                                                               *)

\* the binary released to the caller after the keystream was applied
Released(r) == [ret |-> Ok(r.out, <<>>), engine |-> [NoEngine EXCEPT !.used = r.st.used]]

\* ctr_crypt_std, were it to process whole blocks only
ctr_crypt_whole_blocks(v, key, nonce, data, fail) ==
  IF Len(key) # KeySize(v) \/ Len(nonce) # BlockSize(v) THEN Fails(Panicked)
  ELSE IF fail = 1 THEN Fails(ErrAtom("allocation_failed"))
  ELSE Released(ApplyKeystream(CtrNew(CtrWidth(v), v, key, nonce),
                   SubSeq(data, 1, Len(data) - (Len(data) % BlockSize(v)))))

ctr_crypt_std(v, key, nonce, data, fail) ==
  IF Len(key) # KeySize(v) \/ Len(nonce) # BlockSize(v) THEN Fails(Panicked)
  ELSE IF fail = 1 THEN Fails(ErrAtom("allocation_failed"))
  ELSE Released(ApplyKeystream(CtrNew(CtrWidth(v), v, key, nonce), data))

-----------------------------------------------------------------------------
(* Poly1305 AEAD NIFs.                                                     *)

\* the tag, were the associated data left out of the MAC
compute_poly1305_tag_no_aad(poly_key, aad, ciphertext) ==
  IF Len(poly_key) # 32 THEN BadArg
  ELSE Ok(Poly1305(poly_key, Pad16(ciphertext)
                             \o LE64(Len(aad)) \o LE64(Len(ciphertext))), <<>>)

compute_poly1305_tag(poly_key, aad, ciphertext) ==
  IF Len(poly_key) # 32 THEN BadArg
  ELSE Ok(Poly1305(poly_key, Pad16(aad) \o Pad16(ciphertext)
                             \o LE64(Len(aad)) \o LE64(Len(ciphertext))), <<>>)

\* subtle's ct_eq on slices: unequal lengths are unequal
CtEq(a, b) == Len(a) = Len(b) /\ \A i \in 1..Len(a) : a[i] = b[i]

\* a comparison over the shorter slice's length
CtEqPrefix(a, b) == \A i \in 1..Min(Len(a), Len(b)) : a[i] = b[i]

\* the engine after only 16 keystream bytes were taken
DeriveSubkeyShort(v, key, nonce) ==
  ApplyKeystream(CtrNew(AeadCtrWidth(v), v, key, nonce), Zeros(16))

\* the engine after the first 32 keystream bytes were taken as the MAC key:
\* k.out is the key, k.st the engine the data is then masked with
DeriveSubkey(v, key, nonce) ==
  ApplyKeystream(CtrNew(AeadCtrWidth(v), v, key, nonce), Zeros(32))

\* what is visible of the engine k.st, c.st after the derivation k
Derived(k) == [used |-> k.st.used, derived |-> k.st.ctr, subkey |-> k.out]

Masked(k, c) == [used |-> c.st.used, derived |-> k.st.ctr, subkey |-> k.out]

\* encrypt side, last step: the tag t is copied into its own binary
ReleasePair(k, c, t, fail) ==
  IF t.kind # "ok" THEN [ret |-> t, engine |-> Masked(k, c)]
  ELSE IF fail = 2 THEN [ret |-> ErrAtom("allocation_failed"), engine |-> Masked(k, c)]
  ELSE [ret |-> Ok(c.out, t.bin), engine |-> Masked(k, c)]

\* encrypt side, the ciphertext c in hand: the MAC over it
TagCiphertext(k, c, aad, fail) ==
  ReleasePair(k, c, compute_poly1305_tag(k.out, aad, c.out), fail)

\* encrypt side, were the plaintext masked by the engine started again
EncryptRestarted(k, plaintext, aad, fail) ==
  IF fail = 1 THEN [ret |-> ErrAtom("allocation_failed"), engine |-> Derived(k)]
  ELSE LET c == ApplyKeystream([k.st EXCEPT !.ctr = 0, !.pos = 0, !.buf = <<>>], plaintext)
       IN  ReleasePair(k, c, compute_poly1305_tag(k.out, aad, c.out), fail)

\* encrypt side, were the tag computed over the plaintext
EncryptMacPlaintext(k, plaintext, aad, fail) ==
  IF fail = 1 THEN [ret |-> ErrAtom("allocation_failed"), engine |-> Derived(k)]
  ELSE ReleasePair(k, ApplyKeystream(k.st, plaintext),
                   compute_poly1305_tag(k.out, aad, plaintext), fail)

\* encrypt side after the derivation k
EncryptDerived(k, plaintext, aad, fail) ==
  IF fail = 1 THEN [ret |-> ErrAtom("allocation_failed"), engine |-> Derived(k)]
  ELSE TagCiphertext(k, ApplyKeystream(k.st, plaintext), aad, fail)

speck_poly1305_encrypt_impl(v, key, nonce, plaintext, aad, fail) ==
  IF Len(key) # KeySize(v) \/ Len(nonce) # BlockSize(v) THEN Fails(Panicked)
  ELSE EncryptDerived(DeriveSubkey(v, key, nonce), plaintext, aad, fail)

\* the plaintext released after the check, with what the engine did
Opened(k, c) == [ret |-> Ok(c.out, <<>>), engine |-> Masked(k, c)]

\* decrypt side, were the tags compared over the shorter one's length
VerifyPrefixAndDecrypt(k, t, ciphertext, tag, fail) ==
  IF t.kind # "ok" THEN [ret |-> t, engine |-> Derived(k)]
  ELSE IF ~CtEqPrefix(t.bin, tag)
  THEN [ret |-> ErrAtom("authentication_failed"), engine |-> Derived(k)]
  ELSE IF fail = 1 THEN [ret |-> ErrAtom("allocation_failed"), engine |-> Derived(k)]
  ELSE Opened(k, ApplyKeystream(k.st, ciphertext))

\* decrypt side, the expected tag t in hand: compare, then decrypt
VerifyAndDecrypt(k, t, ciphertext, tag, fail) ==
  IF t.kind # "ok" THEN [ret |-> t, engine |-> Derived(k)]
  ELSE IF ~CtEq(t.bin, tag)
  THEN [ret |-> ErrAtom("authentication_failed"), engine |-> Derived(k)]
  ELSE IF fail = 1 THEN [ret |-> ErrAtom("allocation_failed"), engine |-> Derived(k)]
  ELSE Opened(k, ApplyKeystream(k.st, ciphertext))

\* decrypt side after the derivation k
DecryptDerived(k, ciphertext, tag, aad, fail) ==
  VerifyAndDecrypt(k, compute_poly1305_tag(k.out, aad, ciphertext), ciphertext, tag, fail)

speck_poly1305_decrypt_impl(v, key, nonce, ciphertext, tag, aad, fail) ==
  IF Len(key) # KeySize(v) \/ Len(nonce) # BlockSize(v) THEN Fails(Panicked)
  ELSE DecryptDerived(DeriveSubkey(v, key, nonce), ciphertext, tag, aad, fail)

-----------------------------------------------------------------------------
(* The inputs the calling process draws from.                              *)

MaxResources == 1
MaxChain == 1
MaxBlocks == 2
MaxAad == 17

Ones(n) == Bytes([i \in 1..n |-> 255])

\* the key of the Speck paper's test vector: bytes 8j + n-1 .. 8j per word
KatKey(v) ==
  LET p == Params(v)
  IN  Bytes([i \in 1..(p.m * p.n) |->
        8 * (p.m - 1 - ((i - 1) \div p.n)) + (p.n - 1 - ((i - 1) % p.n))])

KatBlock(v) ==
  CASE v = "Speck32_64" -> <<101, 116, 105, 76>>
    [] v = "Speck48_72" -> <<32, 121, 108, 108, 97, 114>>
    [] v = "Speck48_96" -> <<109, 32, 115, 105, 104, 116>>
    [] v = "Speck64_96" -> <<116, 97, 70, 32, 115, 110, 97, 101>>
    [] v = "Speck64_128" -> <<59, 114, 101, 116, 116, 117, 67, 45>>
    [] v = "Speck96_96" -> <<101, 119, 111, 104, 32, 44, 101, 103, 97, 115, 117, 32>>
    [] v = "Speck96_144" -> <<101, 109, 105, 116, 32, 110, 105, 32, 44, 114, 101, 118>>
    [] v = "Speck128_128" -> <<108, 97, 118, 105, 117, 113, 101, 32, 116, 105, 32, 101, 100, 97, 109, 32>>
    [] v = "Speck128_192" -> <<114, 97, 72, 32, 102, 101, 105, 104, 67, 32, 111, 116, 32, 116, 110, 101>>
    [] v = "Speck128_256" -> <<101, 115, 111, 104, 116, 32, 110, 73, 32, 46, 114, 101, 110, 111, 111, 112>>

KatCipher(v) ==
  CASE v = "Speck32_64" -> <<168, 104, 66, 242>>
    [] v = "Speck48_72" -> <<192, 73, 165, 56, 90, 220>>
    [] v = "Speck48_96" -> <<115, 94, 16, 182, 68, 93>>
    [] v = "Speck64_96" -> <<159, 121, 82, 236, 65, 117, 148, 108>>
    [] v = "Speck64_128" -> <<140, 111, 165, 72, 69, 78, 2, 139>>
    [] v = "Speck96_96" -> <<158, 77, 9, 171, 113, 120, 98, 189, 222, 143, 121, 170>>
    [] v = "Speck96_144" -> <<43, 243, 16, 114, 34, 138, 122, 228, 64, 37, 46, 230>>
    [] v = "Speck128_128" -> <<166, 93, 152, 81, 121, 120, 50, 101, 120, 96, 254, 223, 92, 87, 13, 24>>
    [] v = "Speck128_192" -> <<27, 228, 207, 58, 19, 19, 85, 102, 249, 188, 24, 93, 224, 60, 24, 134>>
    [] v = "Speck128_256" -> <<65, 9, 1, 4, 5, 192, 245, 62, 78, 238, 180, 141, 156, 24, 143, 67>>

Keys(v) == {KatKey(v)}

CtrKeys(v) == {KatKey(v), Zeros(KeySize(v))}

BadKeys(v) == {Zeros(KeySize(v) - 1), Zeros(KeySize(v) + 1)}

Blocks(v) == {KatBlock(v), Zeros(BlockSize(v)), Ones(BlockSize(v))}

BadBlocks(v) == {<<>>, Zeros(BlockSize(v) - 1), Zeros(BlockSize(v) + 1)}

\* all zero, all ones (the counter wraps at once), and a low half of ones
\* (the carry crosses into the high half)
Nonces(v) ==
  {Zeros(BlockSize(v)), Ones(BlockSize(v)),
   Zeros(BlockSize(v) \div 2) \o Ones(BlockSize(v) \div 2)}

BadNonces(v) == {Zeros(BlockSize(v) - 1), Zeros(BlockSize(v) + 1)}

Pattern(n, seed) == Bytes([i \in 1..n |-> (seed + 37 * i) % 256])

\* lengths around the block boundaries, up to MaxBlocks blocks and a byte
DataLens(v) ==
  {0, 1, BlockSize(v) - 1, BlockSize(v), BlockSize(v) + 1,
   MaxBlocks * BlockSize(v) + 1}

Datas(v) == {Pattern(n, 65) : n \in DataLens(v)}

Plaintexts(v) == {Pattern(n, 65) : n \in {0, (MaxBlocks - 1) * BlockSize(v) + 1}}

Aads == {Pattern(n, 7) : n \in {0, MaxAad}}

\* the bits flipped in a byte: the lowest and the highest
FlipBits == {0, 7}

\* the bytes flipped in n bytes: the first, the last, and those on either
\* side of the MAC's 16-byte block boundary
FlipAt(n) == {1, 16, 17, n} \cap (1..n)

\* s with bit b of byte i flipped
FlipBit(s, i, b) == [s EXCEPT ![i] = XorByte(@, Pow2(b))]

-----------------------------------------------------------------------------
(* The state: the cipher resources created so far, the last NIF call with  *)
(* what it returned, and the call before it when the last call was fed     *)
(* from that call's result.                                                *)

Call(op, v, res, key, nonce, data, tag, aad, fail) ==
  [op |-> op, variant |-> v, res |-> res, key |-> key, nonce |-> nonce,
   data |-> data, tag |-> tag, aad |-> aad, fail |-> fail]

NoCall == Call("none", "", 0, <<>>, <<>>, <<>>, <<>>, <<>>, 0)

NoPrev == [call |-> NoCall, ret |-> ErrAtom(""), depth |-> 0]

\* the last call becomes the call before
Chain == [call |-> call, ret |-> ret, depth |-> prev.depth + 1]

Init ==
  /\ resources = <<>>
  /\ call = NoCall
  /\ ret = ErrAtom("")
  /\ prev = NoPrev
  /\ engine = NoEngine

\* the calling process is between calls
Idle == call.op = "none"

\* the calling process drops the last result; the resources stay
Forget ==
  /\ ~Idle
  /\ call' = NoCall
  /\ ret' = ErrAtom("")
  /\ prev' = NoPrev
  /\ engine' = NoEngine
  /\ UNCHANGED resources

\* the call's result and what its engine did reach the state
SetResult(r) == ret' = r.ret /\ engine' = r.engine

\* the resource a successful init hands out is kept
SetResource(r) == resources' = resources \o r.new /\ ret' = r.ret

\* speckNN_MM_init(k)
NifInit(v, key) ==
  /\ Len(resources) < MaxResources
  /\ SetResource(init(v, key))
  /\ call' = Call("init", v, 0, key, <<>>, <<>>, <<>>, <<>>, 0)
  /\ prev' = NoPrev
  /\ engine' = NoEngine

\* speckNN_MM_encrypt(d, r) on resource i
NifEncrypt(i, data, fail, p) ==
  /\ i \in 1..Len(resources)
  /\ ret' = encrypt(resources[i], data, fail)
  /\ call' = Call("encrypt", resources[i].variant, i, <<>>, <<>>, data, <<>>, <<>>, fail)
  /\ prev' = p
  /\ engine' = NoEngine
  /\ UNCHANGED resources

\* speckNN_MM_decrypt(d, r) on resource i
NifDecrypt(i, data, fail, p) ==
  /\ i \in 1..Len(resources)
  /\ ret' = decrypt(resources[i], data, fail)
  /\ call' = Call("decrypt", resources[i].variant, i, <<>>, <<>>, data, <<>>, <<>>, fail)
  /\ prev' = p
  /\ engine' = NoEngine
  /\ UNCHANGED resources

\* the last call returned a block
GotBlock == call.op \in {"encrypt", "decrypt"} /\ ret.kind = "ok" /\ prev.depth < MaxChain

\* speckNN_MM_ctr_crypt(key, nonce, data)
NifCtrCrypt(v, key, nonce, data, fail, p) ==
  /\ SetResult(ctr_crypt_std(v, key, nonce, data, fail))
  /\ call' = Call("ctr_crypt", v, 0, key, nonce, data, <<>>, <<>>, fail)
  /\ prev' = p
  /\ UNCHANGED resources

GotStream == call.op = "ctr_crypt" /\ ret.kind = "ok" /\ prev.depth < MaxChain

\* speckNN_MM_poly1305_encrypt(key, nonce, plaintext, aad)
NifSeal(v, key, nonce, plaintext, aad, fail) ==
  /\ SetResult(speck_poly1305_encrypt_impl(v, key, nonce, plaintext, aad, fail))
  /\ call' = Call("seal", v, 0, key, nonce, plaintext, <<>>, aad, fail)
  /\ prev' = NoPrev
  /\ UNCHANGED resources

\* speckNN_MM_poly1305_decrypt(key, nonce, ciphertext, tag, aad)
NifOpen(v, key, nonce, ciphertext, tag, aad, fail, p) ==
  /\ SetResult(speck_poly1305_decrypt_impl(v, key, nonce, ciphertext, tag, aad, fail))
  /\ call' = Call("open", v, 0, key, nonce, ciphertext, tag, aad, fail)
  /\ prev' = p
  /\ UNCHANGED resources

Sealed == call.op = "seal" /\ ret.kind = "ok" /\ prev.depth < MaxChain

-----------------------------------------------------------------------------
(* Block cipher calls.                                                     *)

BlockInit ==
  Idle /\ \E v \in Variants : \E key \in Keys(v) \cup BadKeys(v) : NifInit(v, key)

BlockEncrypt ==
  Idle /\ \E i \in 1..Len(resources) : \E fail \in 0..1 :
    \E data \in Blocks(resources[i].variant) \cup BadBlocks(resources[i].variant) :
      NifEncrypt(i, data, fail, NoPrev)

BlockDecrypt ==
  Idle /\ \E i \in 1..Len(resources) : \E fail \in 0..1 :
    \E data \in Blocks(resources[i].variant) \cup BadBlocks(resources[i].variant) :
      NifDecrypt(i, data, fail, NoPrev)

\* the block just returned goes back in
BlockEncryptLast ==
  GotBlock /\ \E i \in 1..Len(resources) : NifEncrypt(i, ret.bin, 0, Chain)

BlockDecryptLast ==
  GotBlock /\ \E i \in 1..Len(resources) : NifDecrypt(i, ret.bin, 0, Chain)

BlockNext ==
  \/ BlockInit
  \/ BlockEncrypt
  \/ BlockDecrypt
  \/ BlockEncryptLast
  \/ BlockDecryptLast
  \/ Forget

BlockSpec == Init /\ [][BlockNext]_vars

-----------------------------------------------------------------------------
(* CTR calls.                                                              *)

CtrCrypt ==
  Idle /\ \E v \in CtrVariants : \E key \in CtrKeys(v) : \E nonce \in Nonces(v) :
    \E data \in Datas(v) : \E fail \in 0..1 :
      NifCtrCrypt(v, key, nonce, data, fail, NoPrev)

CtrCryptBadKey ==
  Idle /\ \E v \in CtrVariants : \E key \in BadKeys(v) : \E nonce \in Nonces(v) :
    \E data \in Datas(v) : NifCtrCrypt(v, key, nonce, data, 0, NoPrev)

CtrCryptBadNonce ==
  Idle /\ \E v \in CtrVariants : \E key \in CtrKeys(v) : \E nonce \in BadNonces(v) :
    \E data \in Datas(v) : NifCtrCrypt(v, key, nonce, data, 0, NoPrev)

\* the output just returned goes back in under the same key and nonce
CtrCryptLast ==
  GotStream /\ NifCtrCrypt(call.variant, call.key, call.nonce, ret.bin, 0, Chain)

CtrNext ==
  \/ CtrCrypt
  \/ CtrCryptBadKey
  \/ CtrCryptBadNonce
  \/ CtrCryptLast
  \/ Forget

CtrSpec == Init /\ [][CtrNext]_vars

-----------------------------------------------------------------------------
(* AEAD calls.                                                             *)

AeadNonces(v) == {Zeros(BlockSize(v)), Ones(BlockSize(v))}

Seal ==
  Idle /\ \E v \in CtrVariants : \E key \in Keys(v) : \E nonce \in AeadNonces(v) :
    \E pt \in Plaintexts(v) : \E aad \in Aads : \E fail \in 0..2 :
      NifSeal(v, key, nonce, pt, aad, fail)

\* a ciphertext and a tag that no seal produced
OpenForged ==
  Idle /\ \E v \in CtrVariants : \E key \in Keys(v) : \E nonce \in AeadNonces(v) :
    \E ct \in Plaintexts(v) : \E aad \in Aads :
      \E tag \in {<<>>, Zeros(15), Zeros(16), Zeros(17)} :
        NifOpen(v, key, nonce, ct, tag, aad, 0, NoPrev)

\* the pair just sealed is opened as it is
OpenSealed ==
  Sealed /\ \E fail \in 0..1 :
    NifOpen(call.variant, call.key, call.nonce, ret.bin, ret.tag, call.aad, fail, Chain)

OpenFlippedCiphertext ==
  Sealed /\ \E i \in FlipAt(Len(ret.bin)) : \E b \in FlipBits :
    NifOpen(call.variant, call.key, call.nonce, FlipBit(ret.bin, i, b), ret.tag,
            call.aad, 0, Chain)

OpenFlippedTag ==
  Sealed /\ \E i \in FlipAt(Len(ret.tag)) : \E b \in FlipBits :
    NifOpen(call.variant, call.key, call.nonce, ret.bin, FlipBit(ret.tag, i, b),
            call.aad, 0, Chain)

OpenFlippedAad ==
  Sealed /\ \E i \in FlipAt(Len(call.aad)) : \E b \in FlipBits :
    NifOpen(call.variant, call.key, call.nonce, ret.bin, ret.tag,
            FlipBit(call.aad, i, b), 0, Chain)

\* the tag cut short or lengthened
OpenResizedTag ==
  Sealed /\ \E tag \in {SubSeq(ret.tag, 1, 15), ret.tag \o <<0>>, <<>>} :
    NifOpen(call.variant, call.key, call.nonce, ret.bin, tag, call.aad, 0, Chain)

OpenBadLengths ==
  Idle /\ \E v \in CtrVariants :
    \E kn \in {<<k, n>> : k \in BadKeys(v), n \in AeadNonces(v)}
              \cup {<<k, n>> : k \in Keys(v), n \in BadNonces(v)} :
      NifOpen(v, kn[1], kn[2], <<>>, Zeros(16), <<>>, 0, NoPrev)

SealBadLengths ==
  Idle /\ \E v \in CtrVariants :
    \E kn \in {<<k, n>> : k \in BadKeys(v), n \in AeadNonces(v)}
              \cup {<<k, n>> : k \in Keys(v), n \in BadNonces(v)} :
      NifSeal(v, kn[1], kn[2], <<>>, <<>>, 0)

AeadNext ==
  \/ Seal
  \/ SealBadLengths
  \/ OpenForged
  \/ OpenBadLengths
  \/ OpenSealed
  \/ OpenFlippedCiphertext
  \/ OpenFlippedTag
  \/ OpenFlippedAad
  \/ OpenResizedTag
  \/ Forget

AeadSpec == Init /\ [][AeadNext]_vars

Next == BlockNext \/ CtrNext \/ AeadNext

Spec == Init /\ [][Next]_vars

-----------------------------------------------------------------------------
(* Vocabulary of the properties: the last call's arguments, and a second,  *)
(* direct computation of the counter sequence and of the keystream.        *)

\* the last call's key and nonce have the lengths its variant asks for
ValidLengths ==
  Len(call.key) = KeySize(call.variant) /\ Len(call.nonce) = BlockSize(call.variant)

\* an error the NIF function itself returned, Err(Error::BadArg) or
\* Err(Error::Atom(_)), as opposed to a panic unwound at the NIF boundary
ReturnedError(r) ==
  r = BadArg \/ r = ErrAtom("allocation_failed") \/ r = ErrAtom("authentication_failed")

RECURSIVE IncBE(_)
\* the big-endian integer x plus one, by carry from the last byte;
\* all ones wrap to all zeros
IncBE(x) ==
  IF Len(x) = 0 THEN <<>>
  ELSE IF x[Len(x)] = 255 THEN IncBE(SubSeq(x, 1, Len(x) - 1)) \o <<0>>
  ELSE SubSeq(x, 1, Len(x) - 1) \o <<x[Len(x)] + 1>>

RECURSIVE CounterOf(_, _)
\* the nonce incremented j times
CounterOf(nonce, j) == IF j = 0 THEN nonce ELSE IncBE(CounterOf(nonce, j - 1))

RECURSIVE KeystreamBlocks(_, _, _, _)
\* the encryptions of the counters nonce + j, .., nonce + n - 1, in a row
KeystreamBlocks(c, nonce, j, n) ==
  IF j >= n THEN <<>>
  ELSE EncryptBlock(c, CounterOf(nonce, j)) \o KeystreamBlocks(c, nonce, j + 1, n)

\* the number of block-sized chunks, the last maybe partial, in n bytes
Chunks(n, bs) == (n + bs - 1) \div bs

\* keystream bytes from + 1 .. from + n under the last call's key and nonce
RefKeystream(from, n) ==
  SubSeq(KeystreamBlocks([variant |-> call.variant,
                          rk |-> KeySchedule(call.variant, call.key)],
                         call.nonce, 0, Chunks(from + n, BlockSize(call.variant))),
         from + 1, from + n)

\* the tag recomputed from the last call's key, nonce, aad and ciphertext c
RefTag(c) == compute_poly1305_tag(RefKeystream(0, 32), call.aad, c).bin

\* the last call opened what the call before it sealed, except perhaps for
\* the ciphertext, the tag or the associated data
OpensSealed ==
  /\ call.op = "open" /\ prev.call.op = "seal" /\ prev.ret.kind = "ok"
  /\ call.variant = prev.call.variant
  /\ call.key = prev.call.key /\ call.nonce = prev.call.nonce

\* a and b have the same length and differ in exactly one bit
OneBitApart(a, b) ==
  /\ Len(a) = Len(b)
  /\ \E i \in 1..Len(a) : \E bit \in 0..7 : a = FlipBit(b, i, bit)

-----------------------------------------------------------------------------
(* C1 *)

\* C1: with a key and a nonce of valid length, open returns plaintext only
\* if the supplied tag equals the tag recomputed from (key, nonce, aad,
\* ciphertext); whenever they differ (a tag of another length, a last byte
\* altered) the call returns authentication_failed, no plaintext comes
\* back, and the engine has encrypted no counter block beyond the subkey's
OpenReleasesOnlyOnMatchingTag ==
  (call.op = "open" /\ ValidLengths) =>
    LET expected == RefTag(call.data)
    IN  /\ ret.kind = "ok" => call.tag = expected
        /\ call.tag # expected =>
             /\ ret = ErrAtom("authentication_failed")
             /\ ret.bin = <<>>
             /\ Len(engine.used) = engine.derived

\* a sealed pair opened with the tag's last byte altered: refused
OpenRefusesAlteredLastTagByte ==
  /\ OpensSealed
  /\ Len(call.data) > 0 /\ call.data = prev.ret.bin /\ call.aad = prev.call.aad
  /\ Len(call.tag) = 16
  /\ SubSeq(call.tag, 1, 15) = SubSeq(prev.ret.tag, 1, 15)
  /\ call.tag[16] # prev.ret.tag[16]
  /\ ret = ErrAtom("authentication_failed")

-----------------------------------------------------------------------------
(* C2 *)

\* C2: seal with a key and a nonce of valid length, allocation permitting,
\* returns a ciphertext as long as the plaintext and a 16-byte tag, also
\* for an empty plaintext and empty associated data; open on that pair
\* with the same key, nonce and associated data returns the plaintext
SealOpenRoundTrip ==
  /\ (call.op = "seal" /\ ValidLengths /\ call.fail = 0) => ret.kind = "ok"
  /\ (call.op = "seal" /\ ret.kind = "ok") =>
       Len(ret.bin) = Len(call.data) /\ Len(ret.tag) = 16
  /\ (OpensSealed /\ call.data = prev.ret.bin /\ call.tag = prev.ret.tag
        /\ call.aad = prev.call.aad /\ call.fail = 0) =>
       ret = Ok(prev.call.data, <<>>)

\* the pair sealed from an empty plaintext and empty associated data opens
EmptySealedPairOpens ==
  /\ OpensSealed
  /\ prev.call.data = <<>> /\ prev.call.aad = <<>>
  /\ call.data = prev.ret.bin /\ call.tag = prev.ret.tag /\ call.aad = <<>>
  /\ Len(call.tag) = 16
  /\ ret = Ok(<<>>, <<>>)

-----------------------------------------------------------------------------
(* C3 *)

\* C3: a sealed pair opened under the same key and nonce with one bit
\* flipped in the ciphertext, in the tag or in the associated data is
\* refused with authentication_failed and no plaintext comes back
OpenRefusesSingleBitFlip ==
  (/\ OpensSealed
   /\ \/ /\ OneBitApart(call.data, prev.ret.bin)
         /\ call.tag = prev.ret.tag /\ call.aad = prev.call.aad
      \/ /\ OneBitApart(call.tag, prev.ret.tag)
         /\ call.data = prev.ret.bin /\ call.aad = prev.call.aad
      \/ /\ OneBitApart(call.aad, prev.call.aad)
         /\ call.data = prev.ret.bin /\ call.tag = prev.ret.tag)
  => ret = ErrAtom("authentication_failed") /\ ret.bin = <<>>

\* a sealed pair opened with the top bit of the last aad byte flipped
OpenRefusesFlippedAadBit ==
  /\ OpensSealed
  /\ call.data = prev.ret.bin /\ call.tag = prev.ret.tag
  /\ Len(call.aad) = MaxAad
  /\ call.aad = FlipBit(prev.call.aad, MaxAad, 7)
  /\ ret = ErrAtom("authentication_failed")

-----------------------------------------------------------------------------
(* C4 *)

\* C4: for every variant, a block returned by encrypt and handed to decrypt
\* on the same cipher instance comes back as the block first given; an
\* output block is as long as the input block; the rotation amounts are 7
\* and 2 for 16-bit words and 8 and 3 otherwise, and the instance keyed
\* with the published test key takes the published plaintext to the
\* published ciphertext
BlockRoundTrip ==
  /\ (call.op \in {"encrypt", "decrypt"} /\ ret.kind = "ok") =>
       /\ Len(ret.bin) = Len(call.data)
       /\ Len(ret.bin) = BlockSize(call.variant)
  /\ (call.op \in {"encrypt", "decrypt"} /\ call.fail = 0
        /\ Len(call.data) = BlockSize(call.variant)) => ret.kind = "ok"
  /\ (call.op = "decrypt" /\ ret.kind = "ok" /\ prev.call.op = "encrypt"
        /\ prev.call.res = call.res /\ call.data = prev.ret.bin) =>
       ret.bin = prev.call.data
  /\ (call.op = "encrypt" /\ ret.kind = "ok") =>
       /\ Alpha(Params(call.variant).n) = (IF 8 * Params(call.variant).n = 16 THEN 7 ELSE 8)
       /\ Beta(Params(call.variant).n) = (IF 8 * Params(call.variant).n = 16 THEN 2 ELSE 3)
       /\ (call.data = KatBlock(call.variant)
             /\ resources[call.res].rk = KeySchedule(call.variant, KatKey(call.variant)))
          => ret.bin = KatCipher(call.variant)

\* a block encrypted to another block, and decrypt has given it back
DecryptGaveBackBlock ==
  /\ call.op = "decrypt" /\ ret.kind = "ok"
  /\ prev.call.op = "encrypt" /\ prev.call.res = call.res
  /\ call.data = prev.ret.bin
  /\ call.data # prev.call.data
  /\ ret.bin = prev.call.data

-----------------------------------------------------------------------------
(* C5 *)

\* C5: ctr_crypt with a key and a nonce of valid length, allocation
\* permitting, returns an output as long as the data, whatever the length;
\* applied again under the same key and nonce to its own output it returns
\* the data
CtrSymmetry ==
  /\ (call.op = "ctr_crypt" /\ ValidLengths /\ call.fail = 0) => ret.kind = "ok"
  /\ (call.op = "ctr_crypt" /\ ret.kind = "ok") => Len(ret.bin) = Len(call.data)
  /\ (call.op = "ctr_crypt" /\ ret.kind = "ok" /\ prev.call.op = "ctr_crypt"
        /\ prev.call.variant = call.variant /\ prev.call.key = call.key
        /\ prev.call.nonce = call.nonce /\ call.data = prev.ret.bin) =>
       ret.bin = prev.call.data

\* data ending in a partial block came back from the second application
CtrGaveBackPartialBlockData ==
  /\ call.op = "ctr_crypt" /\ ret.kind = "ok" /\ prev.call.op = "ctr_crypt"
  /\ prev.call.key = call.key /\ prev.call.nonce = call.nonce
  /\ call.data = prev.ret.bin
  /\ Len(call.data) > BlockSize(call.variant)
  /\ Len(call.data) % BlockSize(call.variant) # 0
  /\ call.data # prev.call.data
  /\ ret.bin = prev.call.data

-----------------------------------------------------------------------------
(* C6 *)

\* C6: encrypt and decrypt called with a block of another length than the
\* variant's block size fail with an error returned to the caller (the
\* code has no error term for the block length; any returned error is
\* accepted here), and return no output block
WrongBlockLengthIsReturnedError ==
  (call.op \in {"encrypt", "decrypt"} /\ call.fail = 0
     /\ Len(call.data) # BlockSize(call.variant)) =>
    ReturnedError(ret) /\ ret.bin = <<>>

-----------------------------------------------------------------------------
(* C7 *)

\* C7: ctr_crypt called with a key or a nonce of the wrong length fails,
\* before any keystream is applied, with an error returned to the caller
\* (any returned error is accepted here) and no output
WrongCtrLengthsAreReturnedErrors ==
  (call.op = "ctr_crypt" /\ ~ValidLengths) =>
    ReturnedError(ret) /\ ret.bin = <<>> /\ engine.used = <<>>

-----------------------------------------------------------------------------
(* C8 *)

\* C8: in seal and in open alike the Poly1305 key is keystream bytes 0..31
\* of the engine started from (key, nonce) and byte i of the output is byte
\* i of the input XORed with keystream byte 32 + i; no counter block
\* encrypted for the key is among those encrypted for the data
SubkeyAndMaskDoNotOverlap ==
  (call.op \in {"seal", "open"} /\ ValidLengths) =>
    LET ks == RefKeystream(0, 32 + Len(call.data))
    IN  /\ engine.subkey = SubSeq(ks, 1, 32)
        /\ ret.kind = "ok" =>
             ret.bin = XorBytes(call.data, SubSeq(ks, 33, 32 + Len(call.data)))
        /\ \A i \in 1..engine.derived :
             \A j \in (engine.derived + 1)..Len(engine.used) :
               engine.used[i] # engine.used[j]

\* a plaintext of more than one block sealed under the all-ones nonce
SealedPastSubkey ==
  /\ call.op = "seal" /\ ret.kind = "ok"
  /\ call.nonce = Ones(BlockSize(call.variant))
  /\ Len(call.data) > BlockSize(call.variant)
  /\ Len(engine.used) > engine.derived + 1
  /\ ret.bin = XorBytes(call.data, RefKeystream(32, Len(call.data)))

-----------------------------------------------------------------------------
(* C9 *)

\* C9: the counter block encrypted for chunk j (from 0) of the data is the
\* nonce incremented j times as a big-endian integer of the whole block,
\* with carry across all bytes and all ones wrapping to zero; there is one
\* counter block per block-sized chunk, the last chunk maybe partial, and
\* the output is the data XORed with those blocks' encryptions
CounterBlockPerChunk ==
  (call.op = "ctr_crypt" /\ ValidLengths /\ call.fail = 0) =>
    /\ ret.kind = "ok"
    /\ Len(engine.used) = Chunks(Len(call.data), BlockSize(call.variant))
    /\ \A j \in 1..Len(engine.used) : engine.used[j] = CounterOf(call.nonce, j - 1)
    /\ ret.bin = XorBytes(call.data, RefKeystream(0, Len(call.data)))

\* the counter went from all ones to zero and on to one, and the last
\* chunk was partial
CounterWrappedToZero ==
  /\ call.op = "ctr_crypt" /\ ret.kind = "ok"
  /\ BlockSize(call.variant) = 16
  /\ Len(call.data) = MaxBlocks * 16 + 1
  /\ Len(engine.used) = MaxBlocks + 1
  /\ engine.used[1] = Ones(16)
  /\ engine.used[2] = Zeros(16)
  /\ engine.used[3] = Zeros(15) \o <<1>>

-----------------------------------------------------------------------------
(* C10 *)

\* C10 as stated: for every variant the subkey derivation consumes exactly
\* two counter blocks and the first plaintext byte is masked with the
\* keystream of the third
SubkeyTakesTwoBlocks ==
  (call.op \in {"seal", "open"} /\ ValidLengths) =>
    /\ Len(engine.subkey) = 32
    /\ engine.derived = 2
    /\ (ret.kind = "ok" /\ Len(call.data) > 0) =>
         ret.bin[1] = XorByte(call.data[1], RefKeystream(2 * BlockSize(call.variant), 1)[1])

\* C10 amended: the subkey is exactly 32 bytes, the keystream of the first
\* 32 / block size counter blocks (8, 4 or 2 of them); after the derivation
\* the engine has consumed exactly that many counter blocks, nonce,
\* nonce + 1, ..; the first plaintext byte is masked with the keystream of
\* the next counter block
SubkeyTakes32Bytes ==
  (call.op \in {"seal", "open"} /\ ValidLengths) =>
    LET ks == RefKeystream(0, 33)
    IN  /\ Len(engine.subkey) = 32
        /\ engine.derived = 32 \div BlockSize(call.variant)
        /\ Len(engine.used) >= engine.derived
        /\ \A j \in 1..engine.derived : engine.used[j] = CounterOf(call.nonce, j - 1)
        /\ engine.subkey = SubSeq(ks, 1, 32)
        /\ (ret.kind = "ok" /\ Len(call.data) > 0) =>
             /\ engine.used[engine.derived + 1] = CounterOf(call.nonce, engine.derived)
             /\ ret.bin[1] = XorByte(call.data[1], ks[33])

\* a plaintext sealed under a 32-bit-block variant: eight blocks for the key
SealedAfterEightBlocks ==
  /\ call.op = "seal" /\ ret.kind = "ok"
  /\ BlockSize(call.variant) = 4
  /\ Len(call.data) > 0
  /\ engine.derived = 8
  /\ Len(engine.subkey) = 32

====
